---- MODULE Spec2Model ----
(***************************************************************************)
(* Model of the webhook receiver of src/server.js: the verification route  *)
(* GET /webhook, the Cloud API route POST /webhook and the Twilio route    *)
(* POST /twilio with its download -> transcribe -> reply pipeline.         *)
(*                                                                         *)
(* Text is modelled as a sequence of fragments.  A fragment is a TLA+      *)
(* string: either one character ("&", "<", "a") or a piece of text that    *)
(* holds no character any operation looks at ("Failed to download ...").   *)
(* An absent JavaScript value (undefined) is the empty sequence None and a *)
(* present one is the one-element sequence Some(x).                        *)
(***************************************************************************)
EXTENDS Integers, Sequences, FiniteSets, TLC

VARIABLES
    env,        \* process.env once dotenv.config() has run, None before
    now,        \* Date.now(), in milliseconds
    fs,         \* the files in the server's directory: path -> content
    req,        \* the POST /twilio requests: slot -> request state
    whBody,     \* POST /webhook: the body of the last request
    whLog,      \* POST /webhook: the handler calls the last request made
    whOut,      \* POST /webhook: how the last request ended
    vQuery,     \* GET /webhook: the query of the last request
    vOut,       \* GET /webhook: the reply to the last request
    xText,      \* escapeXml: the text given
    xOut,       \* escapeXml: the text returned
    eBody,      \* field extraction: the decoded body given
    eOut,       \* field extraction: the message record and reply
    dCall,      \* downloadFile: the arguments of the last call
    dOut        \* downloadFile: the Authorization header of its request

vars == <<env, now, fs, req, whBody, whLog, whOut, vQuery, vOut, xText, xOut, eBody, eOut, dCall, dOut>>

None == <<>>
Some(x) == <<x>>

SeqsUpTo(S, n) == UNION {[1..k -> S] : k \in 0..n}

Min(a, b) == IF a < b THEN a ELSE b

(***************************************************************************)
(* escapeXml                                                               *)
(***************************************************************************)

\* String.prototype.replace(/c/g, rep): every occurrence of the character c,
\* left to right, becomes the fragments of rep.  (t is the value of text,
\* taken once per call, as replace() takes its receiver.)
RECURSIVE ReplaceAll(_, _, _)
ReplaceAll(text, c, rep) ==
    CHOOSE out \in { IF t = <<>> THEN <<>>
                     ELSE (IF Head(t) = c THEN rep ELSE <<Head(t)>>)
                          \o ReplaceAll(Tail(t), c, rep) : t \in {text} } : TRUE

AmpEntity == <<"&", "a", "m", "p", ";">>
LtEntity == <<"&", "l", "t", ";">>
GtEntity == <<"&", "g", "t", ";">>
QuotEntity == <<"&", "q", "u", "o", "t", ";">>
AposEntity == <<"&", "a", "p", "o", "s", ";">>

\* A plausible slip: the ampersand substitution moved after the others.
escapeXmlAmpLast(text) ==
    ReplaceAll(
      ReplaceAll(
        ReplaceAll(
          ReplaceAll(
            ReplaceAll(text, "<", LtEntity),
            ">", GtEntity),
          "\"", QuotEntity),
        "'", AposEntity),
      "&", AmpEntity)

\* The five chained replace calls, the ampersand first.
escapeXml(text) ==
    ReplaceAll(
      ReplaceAll(
        ReplaceAll(
          ReplaceAll(
            ReplaceAll(text, "&", AmpEntity),
            "<", LtEntity),
          ">", GtEntity),
        "\"", QuotEntity),
      "'", AposEntity)

(***************************************************************************)
(* JavaScript values of a decoded body                                     *)
(*                                                                         *)
(* A field value is a sequence of texts: None is undefined, one text is a  *)
(* string, two or more texts are an array of strings (what a repeated key  *)
(* decodes to).  An object is a function from its keys (texts) to values.  *)
(* A body is undefined, a string or an object.                             *)
(***************************************************************************)

Str(text) == <<text>>
EmptyStr == Str(<<>>)

Truthy(val) == Len(val) >= 2 \/ (Len(val) = 1 /\ val[1] # <<>>)
IsString(val) == Len(val) = 1

\* a || b
Or(a, b) == IF Truthy(a) THEN a ELSE b

EmptyObj == [k \in {} |-> None]

\* o.k : undefined when the object has no such key
Get(o, k) == IF <<k>> \in DOMAIN o THEN o[<<k>>] ELSE None

BodyUndefined == [t |-> "undefined", s |-> <<>>, o |-> EmptyObj]
BodyString(text) == [t |-> "string", s |-> text, o |-> EmptyObj]
BodyObject(obj) == [t |-> "object", s |-> <<>>, o |-> obj]

\* The index of the first fragment c of text, 0 when there is none.
RECURSIVE IndexOf(_, _)
IndexOf(text, c) ==
    IF text = <<>> THEN 0
    ELSE IF Head(text) = c THEN 1
    ELSE LET r == IndexOf(Tail(text), c) IN IF r = 0 THEN 0 ELSE r + 1

\* String.prototype.split(c)
RECURSIVE Split(_, _)
Split(text, c) ==
    LET i == IndexOf(text, c) IN
    IF i = 0 THEN <<text>>
    ELSE <<SubSeq(text, 1, i - 1)>> \o Split(SubSeq(text, i + 1, Len(text)), c)

\* One more key=value pair in the object querystring.parse builds: a key
\* seen before collects its values in an array.
AddPair(o, k, v) ==
    [x \in DOMAIN o \cup {k} |->
        IF x = k THEN (IF k \in DOMAIN o THEN Append(o[k], v) ELSE <<v>>)
        ELSE o[x]]

RECURSIVE ParsePairs(_, _)
ParsePairs(pieces, o) ==
    IF pieces = <<>> THEN o
    ELSE LET p == Head(pieces)
             i == IndexOf(p, "=")
             k == IF i = 0 THEN p ELSE SubSeq(p, 1, i - 1)
             v == IF i = 0 THEN <<>> ELSE SubSeq(p, i + 1, Len(p))
         IN  ParsePairs(Tail(pieces), IF p = <<>> THEN o ELSE AddPair(o, k, v))

\* querystring.parse(text): split on "&", each piece on its first "=";
\* empty pieces are skipped.  (The texts of the model hold no "%" and no
\* "+", the two characters the decoder rewrites.)
QuerystringParse(text) == ParsePairs(Split(text, "&"), EmptyObj)

(***************************************************************************)
(* POST /twilio: decoding and field extraction                             *)
(***************************************************************************)

\* The manual decoding at the top of the handler: a string body is decoded,
\* an object with a non-empty string `body` field is REPLACED by the
\* decoding of that string, anything else is left as it is.
NormalizeBody(b) ==
    IF b.t = "string" THEN BodyObject(QuerystringParse(b.s))
    ELSE IF b.t = "object"
            /\ Truthy(Get(b.o, "body")) /\ IsString(Get(b.o, "body"))
         THEN BodyObject(QuerystringParse(Get(b.o, "body")[1]))
    ELSE b

Digits == <<"0", "1", "2", "3", "4", "5", "6", "7", "8", "9">>
IsDigit(c) == \E d \in 1..10 : Digits[d] = c
DigitValue(c) == (CHOOSE d \in 1..10 : Digits[d] = c) - 1

RECURSIVE LeadingInt(_, _)
LeadingInt(text, acc) ==
    IF text = <<>> \/ ~IsDigit(Head(text)) THEN acc
    ELSE LeadingInt(Tail(text), 10 * acc + DigitValue(Head(text)))

\* parseInt(val): the leading digits of String(val); NaN is None.  String of
\* an array joins its elements with commas, so its leading digits are those
\* of the first element.
ParseInt(val) ==
    IF val = None \/ val[1] = <<>> \/ ~IsDigit(val[1][1]) THEN None
    ELSE Some(LeadingInt(val[1], 0))

\* The message fields read from the decoded body, each under its
\* capitalised key, then its lower-case key, then a default.
ExtractFields(o) ==
    [ messageBody |-> Or(Or(Or(Get(o, "Body"), Get(o, "body")), Get(o, "BodyText")), EmptyStr),
      from |-> Or(Or(Get(o, "From"), Get(o, "from")), EmptyStr),
      to |-> Or(Or(Get(o, "To"), Get(o, "to")), EmptyStr),
      messageSid |-> Or(Or(Get(o, "MessageSid"), Get(o, "messageSid")), EmptyStr),
      accountSid |-> Or(Or(Get(o, "AccountSid"), Get(o, "accountSid")), EmptyStr),
      numMedia |-> ParseInt(Or(Or(Get(o, "NumMedia"), Get(o, "numMedia")), Str(<<"0">>))),
      mediaUrl |-> Or(Or(Or(Get(o, "MediaUrl0"), Get(o, "mediaUrl0")), Get(o, "mediaUrl")), EmptyStr),
      mediaContentType |->
          Or(Or(Or(Get(o, "MediaContentType0"), Get(o, "mediaContentType0")), Get(o, "mediaType")), EmptyStr) ]

\* s.includes(piece) for a string; for an array, whether piece is an element.
Includes(val, piece) ==
    IF IsString(val) THEN \E i \in 1..Len(val[1]) : val[1][i] = piece
    ELSE \E i \in 1..Len(val) : val[i] = <<piece>>

StartsWithAudio(text) == Len(text) >= 2 /\ text[1] = "audio" /\ text[2] = "/"

HasMedia(m) == (m.numMedia # None /\ m.numMedia[1] > 0) \/ Truthy(m.mediaUrl)

\* The content type is asked .startsWith(): a TypeError when it is an array.
ClassifyThrows(m) ==
    HasMedia(m) /\ Truthy(m.mediaUrl) /\ ~IsString(m.mediaContentType)

\* "Check if it's an audio file": a media URL, and an audio content type or
\* one of the three extensions ANYWHERE in the URL.
IsAudio(m) ==
    /\ HasMedia(m)
    /\ Truthy(m.mediaUrl)
    /\ IsString(m.mediaContentType)
    /\ \/ StartsWithAudio(m.mediaContentType[1])
       \/ Includes(m.mediaUrl, ".wav")
       \/ Includes(m.mediaUrl, ".ogg")
       \/ Includes(m.mediaUrl, ".mp3")

\* mediaContentType.split('/')[1] || 'ogg'
TempExtension(contentType) ==
    LET parts == Split(contentType, "/") IN
    IF Len(parts) >= 2 /\ parts[2] # <<>> THEN parts[2] ELSE <<"ogg">>

(***************************************************************************)
(* POST /twilio: the audio pipeline                                        *)
(***************************************************************************)

NReq == 2           \* requests in flight at once
MaxTime == 2        \* milliseconds the clock is followed for
DetailLen == 200    \* errorText.substring(0, 200)

Slots == 1..NReq

XmlDecl == "<?xml version=\"1.0\" encoding=\"UTF-8\"?>"
ErrorPrefix == "Error processing voice note: "

\* <?xml ...?><Response></Response>
EmptyTwiml == <<XmlDecl, "<Response>", "</Response>">>

\* The envelope with one Message element around the text.
MessageTwiml(text) ==
    <<XmlDecl, "\n", "<Response>", "\n  ", "<Message>">> \o text
        \o <<"</Message>", "\n", "</Response>">>

XmlReply(body) == [status |-> 200, type |-> "text/xml", body |-> body]

\* A plausible change: the failure reported with a 500.
ErrorReplyAs500(message) ==
    [status |-> 500, type |-> "text/xml",
     body |-> MessageTwiml(<<ErrorPrefix>> \o escapeXml(message))]

\* The reply of the catch block: 200, XML, the escaped error message.
ErrorReply(message) ==
    XmlReply(MessageTwiml(<<ErrorPrefix>> \o escapeXml(message)))

SuccessReply(transcription) == XmlReply(MessageTwiml(escapeXml(transcription)))

\* The file system: at most one file per path.
Exists(files, p) == \E f \in files : f.path = p
Unlink(files, p) == {f \in files : f.path # p}
WriteFile(files, p, c) == Unlink(files, p) \cup {[path |-> p, content |-> c]}
ReadFile(files, p) == (CHOOSE f \in files : f.path = p).content

\* join(__dirname, `temp_audio_${Date.now()}.${ext}`)
TempPath(time, contentType) == <<time, TempExtension(contentType)>>

\* What the remote parties may answer.
FetchStatuses == {200, 404, 500}
ResponseOk(status) == status >= 200 /\ status <= 299
ErrorTexts == { <<"<", "h", ">", "&", "'">> }
FetchFailed == <<"fetch failed">>
BodyTerminated == <<"terminated">>
WriteFailed == <<"ENOSPC: no space left on device, write">>
BackendErrors == { <<"Invalid file format. ", "\"", "ogg", "\"">> }
NoSuchFile(syscall) == <<"ENOENT: no such file or directory, ", syscall, " ", "'", "temp_audio", "'">>
NotAnObject == <<"Cannot read properties of undefined (reading ", "'", "Body", "'", ")">>
NotAFunction == <<"mediaContentType.startsWith is not a function">>

DownloadFailure(status, errorText) ==
    <<"Failed to download file: HTTP ", ToString(status), " - ">>
        \o SubSeq(errorText, 1, Min(Len(errorText), DetailLen))

\* What the transcription backend hears in the audio of request c.
TranscriptOf(c) == IF c = 1 THEN <<"hello world">> ELSE <<"a", "<", "b", ToString(c)>>

OggUrl == <<"https:", "/", "/", "api.twilio.com", "/", "Media", "/", "ME1", ".ogg">>
PlainUrl == <<"https:", "/", "/", "api.twilio.com", "/", "Media", "/", "ME2">>
PdfUrl == <<"https:", "/", "/", "cdn.example.com", "/", "doc", ".pdf">>

Obj1(k1, v1) == [k \in {<<k1>>} |-> Str(v1)]
Obj2(k1, v1, k2, v2) == [k \in {<<k1>>, <<k2>>} |-> IF k = <<k1>> THEN Str(v1) ELSE Str(v2)]
Obj3(k1, v1, k2, v2, k3, v3) ==
    [k \in {<<k1>>, <<k2>>, <<k3>>} |->
        IF k = <<k1>> THEN Str(v1) ELSE IF k = <<k2>> THEN Str(v2) ELSE Str(v3)]

\* The bodies the pipeline is exercised with: a voice note with an audio
\* content type, one recognised by its URL only, a text, a document, a media
\* count without a URL, and a request whose body was not decoded at all.
TwilioBodies ==
    { BodyObject(Obj3("NumMedia", <<"1">>, "MediaUrl0", PlainUrl,
                      "MediaContentType0", <<"audio", "/", "ogg">>)),
      BodyObject(Obj1("mediaUrl", OggUrl)),
      BodyObject(Obj2("Body", <<"hi">>, "From", <<"whatsapp:", "1">>)),
      BodyObject(Obj3("NumMedia", <<"1">>, "MediaUrl0", PdfUrl,
                      "MediaContentType0", <<"application", "/", "pdf">>)),
      BodyObject(Obj1("NumMedia", <<"1">>)),
      BodyUndefined }

NoFields == ExtractFields(EmptyObj)

\* The head of the handler, from the decoding of the body to the audio
\* check: it throws (the body is no object, or the content type no string),
\* finds a voice note, or finds none.
TwilioClassify(b) ==
    LET nb == NormalizeBody(b)
        m == ExtractFields(nb.o)
    IN  IF nb.t # "object" THEN [kind |-> "error", m |-> NoFields, message |-> NotAnObject]
        ELSE IF ClassifyThrows(m) THEN [kind |-> "error", m |-> m, message |-> NotAFunction]
        ELSE IF IsAudio(m) THEN [kind |-> "audio", m |-> m, message |-> <<>>]
        ELSE [kind |-> "ack", m |-> m, message |-> <<>>]

IdleRequest ==
    [ pc |-> "idle", kind |-> "", tempAudioPath |-> None,
      status |-> 0, audio |-> 0, transcription |-> <<>>, error |-> None,
      replies |-> <<>>, fileAtSend |-> FALSE, fetches |-> 0, transcribes |-> 0 ]

\* A plausible slip: the catch block answers without deleting the file.
HandlerCatchNoCleanup(files, rq, message) ==
    [ fs |-> files,
      rq |-> [rq EXCEPT !.pc = "done", !.error = Some(message),
                        !.tempAudioPath = None,
                        !.replies = Append(@, ErrorReply(message)),
                        !.fileAtSend = rq.tempAudioPath # None
                                       /\ Exists(files, rq.tempAudioPath[1])] ]

\* The catch block of the handler: delete the temp file if there is one and
\* it exists, then answer with the error envelope.  The handler ends here
\* and its local tempAudioPath with it.
HandlerCatch(files, rq, message) ==
    LET files2 == IF rq.tempAudioPath # None /\ Exists(files, rq.tempAudioPath[1])
                  THEN Unlink(files, rq.tempAudioPath[1]) ELSE files
    IN  [ fs |-> files2,
          rq |-> [rq EXCEPT !.pc = "done", !.error = Some(message),
                            !.tempAudioPath = None,
                            !.replies = Append(@, ErrorReply(message)),
                            !.fileAtSend = rq.tempAudioPath # None
                                           /\ Exists(files2, rq.tempAudioPath[1])] ]

\* The catch block of downloadFile: delete the file if it exists, rethrow.
DownloadCatch(files, rq, message) ==
    [ fs |-> IF Exists(files, rq.tempAudioPath[1])
             THEN Unlink(files, rq.tempAudioPath[1]) ELSE files,
      rq |-> [rq EXCEPT !.pc = "dlThrown", !.error = Some(message)] ]

\* A plausible slip: the acknowledgement carries an (empty) Message.
NonAudioOutcomeWithMessage(files, rq) ==
    [ fs |-> files,
      rq |-> [rq EXCEPT !.pc = "done",
                        !.replies = Append(@, XmlReply(MessageTwiml(<<>>)))] ]

\* "For non-audio messages, respond with TwiML": the empty envelope, and
\* nothing else is done.
NonAudioOutcome(files, rq) ==
    [ fs |-> files,
      rq |-> [rq EXCEPT !.pc = "done",
                        !.replies = Append(@, XmlReply(EmptyTwiml))] ]

TwilioUnchanged == UNCHANGED <<env, whBody, whLog, whOut, vQuery, vOut, xText, xOut, eBody, eOut, dCall, dOut>>

Commit(r, out) ==
    /\ fs' = out.fs
    /\ req' = [req EXCEPT ![r] = out.rq]
    /\ UNCHANGED now
    /\ TwilioUnchanged

\* Date.now() moves on.
Tick ==
    /\ now < MaxTime
    /\ now' = now + 1
    /\ UNCHANGED <<fs, req>>
    /\ TwilioUnchanged

\* A request arrives: the handler runs from its first line to its first
\* await (the fetch inside downloadFile) or to its reply.
TwilioReceive(r) ==
    /\ req[r].pc = "idle"
    /\ \E b \in TwilioBodies :
        LET head == TwilioClassify(b)
            rq == [req[r] EXCEPT !.kind = head.kind]
            path == TempPath(now, head.m.mediaContentType[1])
        IN  Commit(r,
              IF head.kind = "error" THEN HandlerCatch(fs, rq, head.message)
              ELSE IF head.kind = "audio"
                   THEN [fs |-> fs,
                         rq |-> [rq EXCEPT !.pc = "fetch", !.tempAudioPath = Some(path),
                                           !.fetches = @ + 1]]
              ELSE NonAudioOutcome(fs, rq))

\* await fetch(url, { headers }) settles.
FetchSettle(r) ==
    /\ req[r].pc = "fetch"
    /\ \/ Commit(r, DownloadCatch(fs, req[r], FetchFailed))
       \/ \E st \in FetchStatuses :
            Commit(r, [fs |-> fs,
                       rq |-> [req[r] EXCEPT !.status = st,
                                 !.pc = IF ResponseOk(st) THEN "arrayBuffer" ELSE "errText"]])

\* await response.text() of a non-2xx answer settles; the failure is thrown.
ErrorTextSettle(r) ==
    /\ req[r].pc = "errText"
    /\ \/ Commit(r, DownloadCatch(fs, req[r], BodyTerminated))
       \/ \E t \in ErrorTexts :
            Commit(r, DownloadCatch(fs, req[r], DownloadFailure(req[r].status, t)))

\* await response.arrayBuffer() settles, and the buffer is written.
ArrayBufferSettle(r) ==
    /\ req[r].pc = "arrayBuffer"
    /\ \/ Commit(r, DownloadCatch(fs, req[r], BodyTerminated))
       \/ Commit(r, [fs |-> WriteFile(fs, req[r].tempAudioPath[1], r),
                     rq |-> [req[r] EXCEPT !.pc = "dlReturned"]])
       \/ \E partial \in BOOLEAN :
            Commit(r, DownloadCatch(
                IF partial THEN WriteFile(fs, req[r].tempAudioPath[1], r) ELSE fs,
                req[r], WriteFailed))

\* downloadFile has returned: statSync, then transcribeAudio reads the file
\* and calls the backend.
AfterDownload(r) ==
    /\ req[r].pc = "dlReturned"
    /\ Commit(r,
         IF ~Exists(fs, req[r].tempAudioPath[1])
         THEN HandlerCatch(fs, req[r], NoSuchFile("stat"))
         ELSE [fs |-> fs,
               rq |-> [req[r] EXCEPT !.pc = "transcribe",
                                     !.audio = ReadFile(fs, req[r].tempAudioPath[1]),
                                     !.transcribes = @ + 1]])

\* await openai.audio.transcriptions.create(...) settles.
TranscribeSettle(r) ==
    /\ req[r].pc = "transcribe"
    /\ \/ Commit(r, [fs |-> fs,
                     rq |-> [req[r] EXCEPT !.pc = "trReturned",
                                           !.transcription = TranscriptOf(req[r].audio)]])
       \/ \E e \in BackendErrors :
            Commit(r, [fs |-> fs,
                       rq |-> [req[r] EXCEPT !.pc = "trThrown", !.error = Some(e)]])

\* transcribeAudio has returned: delete the temp file and answer.
AfterTranscribe(r) ==
    /\ req[r].pc = "trReturned"
    /\ Commit(r,
         IF ~Exists(fs, req[r].tempAudioPath[1])
         THEN HandlerCatch(fs, req[r], NoSuchFile("unlink"))
         ELSE [fs |-> Unlink(fs, req[r].tempAudioPath[1]),
               rq |-> [req[r] EXCEPT !.pc = "done", !.tempAudioPath = None,
                         !.replies = Append(@, SuccessReply(req[r].transcription)),
                         !.fileAtSend = Exists(Unlink(fs, req[r].tempAudioPath[1]),
                                               req[r].tempAudioPath[1])]])

\* A plausible change: a failed download is tried once more.
AfterThrowRetry(r) ==
    /\ req[r].pc \in {"dlThrown", "trThrown"}
    /\ Commit(r,
         IF req[r].pc = "dlThrown" /\ req[r].fetches < 2
         THEN [fs |-> fs,
               rq |-> [req[r] EXCEPT !.pc = "fetch", !.error = None, !.fetches = @ + 1]]
         ELSE HandlerCatch(fs, req[r], req[r].error[1]))

\* downloadFile or transcribeAudio has thrown: the handler's catch block.
AfterThrow(r) ==
    /\ req[r].pc \in {"dlThrown", "trThrown"}
    /\ Commit(r, HandlerCatch(fs, req[r], req[r].error[1]))


(***************************************************************************)
(* POST /webhook                                                           *)
(*                                                                         *)
(* body = [object, entry]; entry, an entry's changes, a change's value, a  *)
(* value's messages and statuses and a timestamp may each be absent.       *)
(***************************************************************************)

MaxItems == 5       \* entries, changes, messages and statuses of one payload

WhatsApp == "whatsapp_business_account"
Objects == {WhatsApp, "page"}
Fields == {"messages", "message_template_status_update"}

Messages ==
    { [id |-> "wamid.1", from |-> "111", type |-> "text", timestamp |-> Some(1700000001)],
      [id |-> "wamid.2", from |-> "222", type |-> "audio", timestamp |-> Some(1700000002)],
      [id |-> "wamid.3", from |-> "111", type |-> "text", timestamp |-> None] }

Statuses ==
    { [id |-> "wamid.8", status |-> "delivered", recipient_id |-> "111",
       timestamp |-> Some(1700000008)],
      [id |-> "wamid.9", status |-> "read", recipient_id |-> "222", timestamp |-> None] }

EmptyValue == [messages |-> None, statuses |-> None]
EmptyBody == [object |-> WhatsApp, entry |-> Some(<<>>)]

Started(fn, arg, st) == [log |-> Append(st.log, [fn |-> fn, arg |-> arg]), threw |-> st.threw]
Threw(st) == [st EXCEPT !.threw = TRUE]

\* handleIncomingMessage / handleStatusUpdate: both log the fields of their
\* argument; new Date(timestamp * 1000).toISOString() throws a RangeError
\* when the timestamp is not a number.
HandleOne(fn, arg, st) ==
    IF arg.timestamp = None THEN Threw(Started(fn, arg, st)) ELSE Started(fn, arg, st)

\* list.forEach(item => fn(item)): stops at the first call that throws.
RECURSIVE ForEachCall(_, _, _)
ForEachCall(fn, list, st) ==
    IF st.threw \/ list = <<>> THEN st
    ELSE ForEachCall(fn, Tail(list), HandleOne(fn, Head(list), st))

\* A plausible slip: the field of the change is not looked at.
HandleChangeAnyField(change, st) ==
    IF change.value = None THEN Threw(st)
    ELSE LET v == change.value[1]
             afterMessages ==
                 IF v.messages # None
                 THEN ForEachCall("handleIncomingMessage", v.messages[1], st) ELSE st
         IN  IF v.statuses # None
             THEN ForEachCall("handleStatusUpdate", v.statuses[1], afterMessages)
             ELSE afterMessages

\* The body of changes.forEach: only a change whose field is 'messages' is
\* looked into; its messages are handled first, then its statuses.
HandleChange(change, st) ==
    IF change.field # "messages" THEN st
    ELSE IF change.value = None THEN Threw(st)
    ELSE LET v == change.value[1]
             afterMessages ==
                 IF v.messages # None
                 THEN ForEachCall("handleIncomingMessage", v.messages[1], st) ELSE st
         IN  IF v.statuses # None
             THEN ForEachCall("handleStatusUpdate", v.statuses[1], afterMessages)
             ELSE afterMessages

RECURSIVE ForEachChange(_, _)
ForEachChange(changes, st) ==
    IF st.threw \/ changes = <<>> THEN st
    ELSE ForEachChange(Tail(changes), HandleChange(Head(changes), st))

RECURSIVE ForEachEntry(_, _)
ForEachEntry(entries, st) ==
    IF st.threw \/ entries = <<>> THEN st
    ELSE LET e == Head(entries) IN
         ForEachEntry(Tail(entries),
                      IF e.changes = None THEN Threw(st) ELSE ForEachChange(e.changes[1], st))

\* The handler of POST /webhook: the calls it made, the replies it sent and
\* whether an exception left it (Express then answers for it).
WebhookHandler(body) ==
    IF body.object = WhatsApp
    THEN LET st == IF body.entry = None THEN [log |-> <<>>, threw |-> TRUE]
                   ELSE ForEachEntry(body.entry[1], [log |-> <<>>, threw |-> FALSE])
         IN  [ log |-> st.log,
               replies |-> IF st.threw THEN <<>> ELSE <<[status |-> 200, body |-> "OK"]>>,
               escaped |-> st.threw ]
    ELSE [ log |-> <<>>,
           replies |-> <<[status |-> 404, body |-> "Not Found"]>>,
           escaped |-> FALSE ]

OptLen(opt) == IF opt = None THEN 0 ELSE Len(opt[1])
ValueItems(value) == IF value = None THEN 0
                     ELSE OptLen(value[1].messages) + OptLen(value[1].statuses)

RECURSIVE ChangesItems(_)
ChangesItems(changes) ==
    IF changes = <<>> THEN 0
    ELSE 1 + ValueItems(Head(changes).value) + ChangesItems(Tail(changes))

RECURSIVE EntriesItems(_)
EntriesItems(entries) ==
    IF entries = <<>> THEN 0
    ELSE 1 + (IF Head(entries).changes = None THEN 0 ELSE ChangesItems(Head(entries).changes[1]))
           + EntriesItems(Tail(entries))

\* The entries, changes, messages and statuses of a payload.
BodyItems(body) == IF body.entry = None THEN 0 ELSE EntriesItems(body.entry[1])

WebhookUnchanged == UNCHANGED <<env, now, fs, req, vQuery, vOut, xText, xOut, eBody, eOut, dCall, dOut>>

Composing == whOut = None /\ BodyItems(whBody) < MaxItems

NE == Len(whBody.entry[1])
NC == Len(whBody.entry[1][NE].changes[1])
HasEntry == whBody.entry # None /\ NE > 0
HasChange == HasEntry /\ whBody.entry[1][NE].changes # None /\ NC > 0
HasValue == HasChange /\ whBody.entry[1][NE].changes[1][NC].value # None

\* The sender composes the JSON body, in document order.
ClientSetObject ==
    /\ whOut = None /\ whBody = EmptyBody
    /\ \E o \in Objects \ {WhatsApp} : whBody' = [whBody EXCEPT !.object = o]
    /\ UNCHANGED <<whLog, whOut>>
    /\ WebhookUnchanged

ClientAddEntry ==
    /\ Composing /\ whBody.entry # None
    /\ whBody' = [whBody EXCEPT !.entry[1] = Append(@, [changes |-> Some(<<>>)])]
    /\ UNCHANGED <<whLog, whOut>>
    /\ WebhookUnchanged

ClientAddChange ==
    /\ Composing /\ HasEntry /\ whBody.entry[1][NE].changes # None
    /\ \E f \in Fields :
         whBody' = [whBody EXCEPT !.entry[1][NE].changes[1] =
                        Append(@, [field |-> f, value |-> Some(EmptyValue)])]
    /\ UNCHANGED <<whLog, whOut>>
    /\ WebhookUnchanged

ClientAddMessage ==
    /\ Composing /\ HasValue
    /\ \E m \in Messages :
         whBody' = [whBody EXCEPT !.entry[1][NE].changes[1][NC].value[1].messages =
                        Some(IF @ = None THEN <<m>> ELSE Append(@[1], m))]
    /\ UNCHANGED <<whLog, whOut>>
    /\ WebhookUnchanged

ClientAddStatus ==
    /\ Composing /\ HasValue
    /\ \E s \in Statuses :
         whBody' = [whBody EXCEPT !.entry[1][NE].changes[1][NC].value[1].statuses =
                        Some(IF @ = None THEN <<s>> ELSE Append(@[1], s))]
    /\ UNCHANGED <<whLog, whOut>>
    /\ WebhookUnchanged

\* The sender leaves a field out: entry, the last entry's changes or the
\* last change's value.
ClientOmit ==
    /\ whOut = None
    /\ \/ /\ whBody.entry = Some(<<>>)
          /\ whBody' = [whBody EXCEPT !.entry = None]
       \/ /\ HasEntry /\ whBody.entry[1][NE].changes = Some(<<>>)
          /\ whBody' = [whBody EXCEPT !.entry[1][NE].changes = None]
       \/ /\ HasValue /\ whBody.entry[1][NE].changes[1][NC].value = Some(EmptyValue)
          /\ whBody' = [whBody EXCEPT !.entry[1][NE].changes[1][NC].value = None]
    /\ UNCHANGED <<whLog, whOut>>
    /\ WebhookUnchanged

\* app.post('/webhook'): the whole handler, which is synchronous.
WebhookPost ==
    /\ whOut = None
    /\ LET out == WebhookHandler(whBody) IN
         /\ whLog' = out.log
         /\ whOut' = Some([replies |-> out.replies, escaped |-> out.escaped])
    /\ UNCHANGED whBody
    /\ WebhookUnchanged

NextWebhook ==
    \/ ClientSetObject
    \/ ClientAddEntry
    \/ ClientAddChange
    \/ ClientAddMessage
    \/ ClientAddStatus
    \/ ClientOmit
    \/ WebhookPost

(***************************************************************************)
(* GET /webhook                                                            *)
(***************************************************************************)

Secrets == {None, Some("s3cret"), Some("")}
Modes == {None, Some("subscribe"), Some("unsubscribe"), Some("Subscribe")}
Tokens == {None, Some("s3cret"), Some("guess"), Some("")}
Challenges == {None, Some("abc123"), Some("1158201444")}
AccountSids == {None, Str(<<"ACenv">>)}
AuthTokens == {None, Str(<<"tok3n">>)}

OtherUnchanged == UNCHANGED <<now, fs, req, whBody, whLog, whOut, xText, xOut, eBody, eOut, dCall, dOut>>

\* dotenv.config(): the environment is read once, at startup; the
\* verification secret may be unset.
DotenvConfig ==
    /\ env = None
    /\ \E s \in Secrets, sid \in AccountSids, tok \in AuthTokens :
         env' = Some([WEBHOOK_VERIFY_TOKEN |-> s,
                      TWILIO_ACCOUNT_SID |-> sid, TWILIO_AUTH_TOKEN |-> tok])
    /\ UNCHANGED <<vQuery, vOut>>
    /\ OtherUnchanged

\* A plausible slip: the token is compared, the mode is not.
VerifyHandlerTokenOnly(q, environment) ==
    IF q.token = environment.WEBHOOK_VERIFY_TOKEN
    THEN [status |-> 200, body |-> q.challenge]
    ELSE [status |-> 403, body |-> Some("Forbidden")]

\* app.get('/webhook'): both comparisons are ===, and an absent parameter and
\* an unset variable are both undefined.
VerifyHandler(q, environment) ==
    IF q.mode = Some("subscribe") /\ q.token = environment.WEBHOOK_VERIFY_TOKEN
    THEN [status |-> 200, body |-> q.challenge]
    ELSE [status |-> 403, body |-> Some("Forbidden")]

VerifyGet ==
    /\ env # None
    /\ \E m \in Modes, t \in Tokens, c \in Challenges :
         LET q == [mode |-> m, token |-> t, challenge |-> c] IN
         /\ vQuery' = Some(q)
         /\ vOut' = Some(VerifyHandler(q, env[1]))
    /\ UNCHANGED env
    /\ OtherUnchanged

NextVerify == DotenvConfig \/ VerifyGet

(***************************************************************************)
(* escapeXml on its own                                                    *)
(***************************************************************************)

MaxTextLen == 4

XmlAlphabet == {"&", "<", ">", "\"", "'", "l", "t", ";"}

EscapeXmlCall ==
    /\ xOut = None
    /\ \E t \in SeqsUpTo(XmlAlphabet, MaxTextLen) :
         /\ xText' = t
         /\ xOut' = Some(escapeXml(t))
    /\ UNCHANGED <<env, now, fs, req, whBody, whLog, whOut, vQuery, vOut, eBody, eOut, dCall, dOut>>

NextXml == EscapeXmlCall

(***************************************************************************)
(* POST /twilio: the head of the handler over many bodies                  *)
(***************************************************************************)

MaxFields == 2      \* fields of a body object

TrickyUrl == <<"https:", "/", "/", "cdn.example.com", "/", "a", ".ogg", "/", "doc", ".pdf">>
QueryUrl == <<"https:", "/", "/", "cdn.example.com", "/", "doc", ".pdf", "?", "src", "=", "v", ".mp3">>
AudioWav == <<"audio", "/", "wav">>
ApplicationPdf == <<"application", "/", "pdf">>

ExtractKeys ==
    { <<"Body">>, <<"body">>, <<"From">>, <<"from">>, <<"To">>, <<"to">>,
      <<"NumMedia">>, <<"numMedia">>, <<"MediaUrl0">>, <<"mediaUrl0">>, <<"mediaUrl">>,
      <<"MediaContentType0">>, <<"mediaContentType0">>, <<"mediaType">> }

ExtractValues ==
    { Str(<<>>), Str(<<"hi">>), Str(<<"1">>), Str(<<"From", "=", "x">>),
      Str(OggUrl), Str(PdfUrl), Str(TrickyUrl), Str(QueryUrl),
      Str(AudioWav), Str(ApplicationPdf) }

FormTexts ==
    { <<"Body", "=", "hi", "&", "From", "=", "x">>,
      <<"MediaUrl0", "=">> \o OggUrl \o <<"&", "NumMedia", "=", "1">>,
      <<"MediaContentType0", "=", "a", "&", "MediaContentType0", "=", "b", "&",
        "MediaUrl0", "=">> \o OggUrl,
      <<"hi">>,
      <<>> }

ExtractBodies ==
    {BodyUndefined}
    \cup {BodyString(t) : t \in FormTexts}
    \cup {BodyObject(o) :
            o \in UNION {[K -> ExtractValues] :
                           K \in {S \in SUBSET ExtractKeys : Cardinality(S) <= MaxFields}}}

\* A POST /twilio request, followed to its audio check.
TwilioHead ==
    /\ eOut = None
    /\ \E b \in ExtractBodies :
         /\ eBody' = Some(b)
         /\ eOut' = Some(TwilioClassify(b))
    /\ UNCHANGED <<env, now, fs, req, whBody, whLog, whOut, vQuery, vOut, xText, xOut, dCall, dOut>>

NextExtract == TwilioHead

(***************************************************************************)
(* downloadFile: the request it sends                                      *)
(***************************************************************************)

CdnOggUrl == <<"https:", "/", "/", "cdn.example.com", "/", "v", ".ogg">>
EvilPathUrl == <<"https:", "/", "/", "evil.example.com", "/", "api.twilio.com", "/", "v", ".ogg">>
EvilQueryUrl == <<"https:", "/", "/", "evil.example.com", "/", "v", ".ogg", "?", "x", "=",
                  "api.twilio.com">>
MediaUrls == {OggUrl, PlainUrl, CdnOggUrl, EvilPathUrl, EvilQueryUrl}
BodyAccountSids == {EmptyStr, Str(<<"ACbody">>), Str(<<"ACother">>)}

\* Buffer.from(text).toString('base64')
Base64(text) == <<"base64(">> \o text \o <<")">>

\* The credentials the handler passes on: the account SID of the
\* environment or else the one of the webhook body, and the auth token of
\* the environment or null.
HandlerCredentials(environment, accountSid) ==
    [ accountSid |-> Or(environment.TWILIO_ACCOUNT_SID, accountSid),
      authToken |-> Or(environment.TWILIO_AUTH_TOKEN, None) ]

\* The Authorization header downloadFile builds, None when it builds none:
\* Basic credentials when 'api.twilio.com' occurs ANYWHERE in the URL and
\* both credentials are given.
AuthorizationHeader(url, accountSid, authToken) ==
    IF Includes(Str(url), "api.twilio.com") /\ Truthy(accountSid) /\ Truthy(authToken)
    THEN Some(<<"Basic ">> \o Base64(accountSid[1] \o <<":">> \o authToken[1]))
    ELSE None

\* The handler calls downloadFile for a voice note, which builds its
\* headers and issues the fetch.
DownloadStart ==
    /\ env # None /\ dOut = None
    /\ \E url \in MediaUrls, sid \in BodyAccountSids :
         LET c == HandlerCredentials(env[1], sid) IN
         /\ dCall' = Some([url |-> url, accountSid |-> c.accountSid, authToken |-> c.authToken])
         /\ dOut' = Some(AuthorizationHeader(url, c.accountSid, c.authToken))
    /\ UNCHANGED <<env, now, fs, req, whBody, whLog, whOut, vQuery, vOut, xText, xOut, eBody, eOut>>

NextDownload == DotenvConfig \/ DownloadStart

DownloadIdle == dCall = None /\ dOut = None

TwilioIdle == now = 1 /\ fs = {} /\ req = [r \in Slots |-> IdleRequest]
WebhookIdle == whBody = EmptyBody /\ whLog = <<>> /\ whOut = None
VerifyIdle == env = None /\ vQuery = None /\ vOut = None
XmlIdle == xText = <<>> /\ xOut = None
ExtractIdle == eBody = None /\ eOut = None

Init == TwilioIdle /\ WebhookIdle /\ VerifyIdle /\ XmlIdle /\ ExtractIdle /\ DownloadIdle

Next ==
    \/ Tick
    \/ \E r \in Slots : TwilioReceive(r)
    \/ \E r \in Slots : FetchSettle(r)
    \/ \E r \in Slots : ErrorTextSettle(r)
    \/ \E r \in Slots : ArrayBufferSettle(r)
    \/ \E r \in Slots : AfterDownload(r)
    \/ \E r \in Slots : TranscribeSettle(r)
    \/ \E r \in Slots : AfterTranscribe(r)
    \/ \E r \in Slots : AfterThrow(r)

Spec == Init /\ [][Next]_vars

\* The event loop runs the continuation of every settled await; nothing in
\* the code makes a pending fetch or backend call settle (no timeout, no
\* AbortSignal is passed), and no request is bound to arrive.
EventLoop ==
    \A r \in Slots :
        /\ WF_vars(AfterDownload(r))
        /\ WF_vars(AfterTranscribe(r))
        /\ WF_vars(AfterThrow(r))

SpecEventLoop == Spec /\ EventLoop

SpecWebhook == Init /\ [][NextWebhook]_vars

SpecVerify == Init /\ [][NextVerify]_vars

SpecXml == Init /\ [][NextXml]_vars

SpecExtract == Init /\ [][NextExtract]_vars

SpecDownload == Init /\ [][NextDownload]_vars

(***************************************************************************)
(* Properties                                                              *)
(***************************************************************************)

Entities ==
    { [e |-> AmpEntity, c |-> "&"], [e |-> LtEntity, c |-> "<"], [e |-> GtEntity, c |-> ">"],
      [e |-> QuotEntity, c |-> "\""], [e |-> AposEntity, c |-> "'"] }

IsPrefix(p, text) == Len(p) <= Len(text) /\ SubSeq(text, 1, Len(p)) = p

\* What an XML parser reads back from character data: each of the five
\* entity references becomes its character, left to right.
RECURSIVE XmlDecode(_)
XmlDecode(text) ==
    IF text = <<>> THEN <<>>
    ELSE IF \E x \in Entities : IsPrefix(x.e, text)
         THEN LET x == CHOOSE y \in Entities : IsPrefix(y.e, text)
              IN  <<x.c>> \o XmlDecode(SubSeq(text, Len(x.e) + 1, Len(text)))
    ELSE <<Head(text)>> \o XmlDecode(Tail(text))

\* No raw markup character, and no "&" that does not start an entity.
WellEscaped(text) ==
    \A i \in 1..Len(text) :
        /\ text[i] \notin {"<", ">", "\"", "'"}
        /\ text[i] = "&" =>
              \E x \in Entities : IsPrefix(x.e, SubSeq(text, i, Len(text)))

\* The text inside the Message element of an envelope.
MessageContent(body) == SubSeq(body, 6, Len(body) - 3)
IsMessageEnvelope(body) == Len(body) >= 8 /\ body = MessageTwiml(MessageContent(body))

InFlight(r) == req[r].pc \notin {"idle", "done"}
Answered(r) == req[r].pc = "done"

C2_FailureIs200Xml ==
    \A r \in Slots :
        \A i \in 1..Len(req[r].replies) :
            LET reply == req[r].replies[i]
                content == MessageContent(reply.body)
            IN  /\ reply.status = 200
                /\ reply.type = "text/xml"
                /\ req[r].error # None =>
                     /\ IsMessageEnvelope(reply.body)
                     /\ Len(content) >= 1 /\ content[1] = ErrorPrefix
                     /\ WellEscaped(Tail(content))
                     /\ XmlDecode(Tail(content)) = req[r].error[1]

\* A request answered after its download was refused with a 404 whose body
\* holds markup.
C2_Witness ==
    \E r \in Slots :
        /\ Answered(r) /\ Len(req[r].replies) = 1
        /\ req[r].error = Some(DownloadFailure(404, <<"<", "h", ">", "&", "'">>))

\* C3: the temp file of a request in flight is private: a file at the path
\* a request in flight is using was written by that request, a request
\* transcribes only the audio it downloaded itself, and no request finds its
\* file gone.
C3_TempFileIsPrivate ==
    \A r \in Slots :
        /\ InFlight(r) =>
             \A f \in fs : f.path = req[r].tempAudioPath[1] => f.content = r
        /\ req[r].audio \in {0, r}
        /\ req[r].error \notin {Some(NoSuchFile("stat")), Some(NoSuchFile("unlink"))}

\* C4: POST /webhook answers 200 "OK" whenever the body's object is
\* 'whatsapp_business_account', whatever else the body holds or lacks, and
\* 404 otherwise; no exception leaves the handler.
C4_WebhookAlwaysAnswers ==
    whOut # None =>
        /\ ~whOut[1].escaped
        /\ whOut[1].replies =
             IF whBody.object = WhatsApp THEN <<[status |-> 200, body |-> "OK"]>>
             ELSE <<[status |-> 404, body |-> "Not Found"]>>

\* C5: every request handled by POST /twilio or POST /webhook has exactly
\* one reply sent by its handler.
C5_ExactlyOneReply ==
    /\ \A r \in Slots : Answered(r) => Len(req[r].replies) = 1
    /\ whOut # None => Len(whOut[1].replies) = 1

\* C11: a POST /twilio request whose payload the handler does not take for
\* an audio message is answered 200 with the empty envelope
\* <Response></Response>, and has fetched nothing, called the transcription
\* backend never, chosen no temp path and written no file.
C11_NonAudioIsEmptyAck ==
    \A r \in Slots :
        req[r].kind = "ack" =>
            /\ Answered(r)
            /\ req[r].replies = <<[status |-> 200, type |-> "text/xml", body |-> EmptyTwiml]>>
            /\ req[r].fetches = 0 /\ req[r].transcribes = 0
            /\ req[r].tempAudioPath = None
            /\ \A f \in fs : f.content # r

\* A non-audio request answered while a voice note of another request is on
\* disk.
C11_Witness ==
    \E r \in Slots :
        /\ req[r].kind = "ack" /\ Answered(r)
        /\ \E f \in fs : f.content # r

DownloadErrors ==
    {FetchFailed, BodyTerminated, WriteFailed}
        \cup {DownloadFailure(st, t) : st \in FetchStatuses, t \in ErrorTexts}

\* C13: within one POST /twilio request the download is attempted at most
\* once and the transcription backend is called at most once; the backend is
\* called only when downloadFile has returned after a 2xx answer and the
\* file is on disk, and never once the download has failed.
C13_OrderedAndUnrepeated ==
    /\ [](\A r \in Slots :
            /\ req[r].fetches <= 1 /\ req[r].transcribes <= 1
            /\ (req[r].error # None /\ req[r].error[1] \in DownloadErrors)
                  => req[r].transcribes = 0)
    /\ [][\A r \in Slots :
             req'[r].transcribes # req[r].transcribes =>
                 /\ req[r].pc = "dlReturned" /\ req'[r].pc = "transcribe"
                 /\ req[r].fetches = 1 /\ ResponseOk(req[r].status)
                 /\ Exists(fs, req[r].tempAudioPath[1])]_vars

\* A request answered with its transcription after one download and one
\* backend call.
C13_Witness ==
    \E r \in Slots :
        /\ Answered(r) /\ req[r].error = None
        /\ req[r].fetches = 1 /\ req[r].transcribes = 1

\* C14: every POST /twilio request that has entered the audio pipeline
\* eventually sends its reply, with its temp file gone, whatever the remote
\* media server and the transcription backend do.
C14_PipelineAlwaysAnswers ==
    \A r \in Slots :
        InFlight(r) ~> (Answered(r) /\ ~req[r].fileAtSend)

UrlHost(url) == url[4]

\* C12: downloadFile sends the Basic Authorization header only to a URL
\* whose host is the provider's media domain, and only when both
\* credentials are given; the header is base64 of accountSid:authToken.
C12_CredentialsOnlyToProviderHost ==
    (dOut # None /\ dOut[1] # None) =>
        /\ UrlHost(dCall[1].url) = "api.twilio.com"
        /\ Truthy(dCall[1].accountSid) /\ Truthy(dCall[1].authToken)
        /\ dOut[1][1] = <<"Basic ">>
               \o Base64(dCall[1].accountSid[1] \o <<":">> \o dCall[1].authToken[1])

LowerKey(k) ==
    IF k = <<"Body">> THEN <<"body">>
    ELSE IF k = <<"From">> THEN <<"from">>
    ELSE IF k = <<"To">> THEN <<"to">>
    ELSE IF k = <<"NumMedia">> THEN <<"numMedia">>
    ELSE IF k = <<"MediaUrl0">> THEN <<"mediaUrl0">>
    ELSE IF k = <<"MediaContentType0">> THEN <<"mediaContentType0">>
    ELSE k

CapitalisedKeys ==
    {<<"Body">>, <<"From">>, <<"To">>, <<"NumMedia">>, <<"MediaUrl0">>, <<"MediaContentType0">>}

\* The same object with every key in its lower-case form.
Lowered(o) ==
    [k \in {LowerKey(x) : x \in DOMAIN o} |->
        o[CHOOSE x \in DOMAIN o : LowerKey(x) = k]]

\* C6: a body that carries its values under the capitalised keys and the
\* body that carries the same values under the lower-case keys give the
\* same message record and the same reply.
C6_CaseInsensitiveExtraction ==
    (eOut # None /\ eBody[1].t = "object" /\ DOMAIN eBody[1].o # {}
        /\ DOMAIN eBody[1].o \subseteq CapitalisedKeys)
    => eOut[1] = TwilioClassify(BodyObject(Lowered(eBody[1].o)))

\* The path of a URL: what follows the host, up to the query or fragment.
UrlPath(url) ==
    LET rest == SubSeq(url, 5, Len(url))
        cut == {i \in 1..Len(rest) : rest[i] \in {"?", "#"}}
        end == IF cut = {} THEN Len(rest) ELSE (CHOOSE i \in cut : \A j \in cut : i <= j) - 1
    IN  SubSeq(rest, 1, end)

PathEndsInAudioExtension(url) ==
    LET path == UrlPath(url) IN
    path # <<>> /\ path[Len(path)] \in {".wav", ".ogg", ".mp3"}

IsUrl(text) == Len(text) >= 4 /\ text[1] = "https:"

\* C7: a medium (a URL with a content type, possibly empty) is taken for
\* audio exactly when its content type starts with 'audio/' or the path of
\* its URL ends in .wav, .ogg or .mp3.
C7_AudioIffTypeOrPathExtension ==
    (eOut # None /\ eOut[1].kind # "error"
        /\ IsString(eOut[1].m.mediaUrl) /\ IsUrl(eOut[1].m.mediaUrl[1])
        /\ IsString(eOut[1].m.mediaContentType))
    => (eOut[1].kind = "audio"
          <=> \/ StartsWithAudio(eOut[1].m.mediaContentType[1])
              \/ PathEndsInAudioExtension(eOut[1].m.mediaUrl[1]))

\* C15: a body object that carries other fields beside a string-valued
\* `body` field is not replaced by the decoding of that string: the message
\* record is the one extracted from the object itself.
C15_OtherFieldsSurviveNestedBody ==
    (eOut # None /\ eBody[1].t = "object"
        /\ IsString(Get(eBody[1].o, "body"))
        /\ Cardinality(DOMAIN eBody[1].o) >= 2)
    => eOut[1].m = ExtractFields(eBody[1].o)

\* C16: a request without hub.verify_token is never answered 200, whether
\* or not the verification secret is set.
C16_NoTokenNever200 ==
    (vOut # None /\ vQuery[1].token = None) => vOut[1].status # 200

\* C8: with a verification secret configured, GET /webhook answers 200 with
\* the challenge as body exactly when hub.mode is 'subscribe' and
\* hub.verify_token is the secret; every other request is answered 403.
C8_VerifyExactlyOnMatch ==
    (vOut # None /\ env[1].WEBHOOK_VERIFY_TOKEN # None) =>
        IF vQuery[1].mode = Some("subscribe")
           /\ vQuery[1].token = env[1].WEBHOOK_VERIFY_TOKEN
        THEN vOut[1].status = 200 /\ vOut[1].body = vQuery[1].challenge
        ELSE vOut[1].status = 403

\* The handshake of the provider: the right token, answered with the
\* challenge.
C8_Witness ==
    /\ vOut # None
    /\ env[1].WEBHOOK_VERIFY_TOKEN = Some("s3cret")
    /\ vQuery[1] = [mode |-> Some("subscribe"), token |-> Some("s3cret"),
                    challenge |-> Some("abc123")]
    /\ vOut[1] = [status |-> 200, body |-> Some("abc123")]

RECURSIVE ConcatOver(_, _)
ConcatOver(F(_), list) ==
    IF list = <<>> THEN <<>> ELSE F(Head(list)) \o ConcatOver(F, Tail(list))

OptList(opt) == IF opt = None THEN <<>> ELSE opt[1]

MessageCall(m) == <<[fn |-> "handleIncomingMessage", arg |-> m]>>
StatusCall(s) == <<[fn |-> "handleStatusUpdate", arg |-> s]>>
CallsOfValue(v) ==
    ConcatOver(MessageCall, OptList(v.messages)) \o ConcatOver(StatusCall, OptList(v.statuses))
CallsOfAnyChange(c) == CallsOfValue(c.value[1])
CallsOfMessagesChange(c) == IF c.field = "messages" THEN CallsOfValue(c.value[1]) ELSE <<>>
AllCallsOfEntry(e) == ConcatOver(CallsOfAnyChange, e.changes[1])
MessagesCallsOfEntry(e) == ConcatOver(CallsOfMessagesChange, e.changes[1])

\* A well-formed payload: nothing is absent but, possibly, the messages or
\* the statuses of a value.
ValidPayload(body) ==
    /\ body.object = WhatsApp
    /\ body.entry # None
    /\ \A i \in 1..Len(body.entry[1]) :
         LET e == body.entry[1][i] IN
         /\ e.changes # None
         /\ \A j \in 1..Len(e.changes[1]) :
              LET c == e.changes[1][j] IN
              /\ c.value # None
              /\ \A k \in 1..OptLen(c.value[1].messages) :
                     c.value[1].messages[1][k].timestamp # None
              /\ \A k \in 1..OptLen(c.value[1].statuses) :
                     c.value[1].statuses[1][k].timestamp # None

\* C9, as stated: for a valid payload the handler calls are exactly the N
\* messages and M statuses of the whole payload, each call with its own
\* entry.
C9_OneCallPerItem ==
    (whOut # None /\ ValidPayload(whBody)) =>
        /\ Len(whLog) = Len(ConcatOver(AllCallsOfEntry, whBody.entry[1]))
        /\ \A c \in {whLog[i] : i \in 1..Len(whLog)} :
             Cardinality({i \in 1..Len(whLog) : whLog[i] = c})
               = Cardinality({i \in 1..Len(ConcatOver(AllCallsOfEntry, whBody.entry[1])) :
                                ConcatOver(AllCallsOfEntry, whBody.entry[1])[i] = c})

\* C9, amended: for a valid payload the handler calls are exactly the
\* messages and statuses found under the changes whose field is 'messages',
\* one call each with that message or status, in payload order; the request
\* is answered 200 "OK".
C9_OneCallPerItemOfMessagesChanges ==
    (whOut # None /\ ValidPayload(whBody)) =>
        /\ whLog = ConcatOver(MessagesCallsOfEntry, whBody.entry[1])
        /\ ~whOut[1].escaped

\* A valid batch: a message and a status, in two changes.
C9_Witness ==
    /\ whOut # None /\ ValidPayload(whBody)
    /\ Len(whBody.entry[1]) = 1 /\ Len(whBody.entry[1][1].changes[1]) = 2
    /\ Len(whLog) = 2
    /\ whLog[1].fn = "handleIncomingMessage" /\ whLog[2].fn = "handleStatusUpdate"

\* C10: decoding the five entities in escapeXml(text) gives back text, and
\* escapeXml(text) holds no raw <, >, ", ' and no & but at the start of one
\* of the five entities.
C10_EscapeXmlRoundTrip ==
    xOut # None => (XmlDecode(xOut[1]) = xText /\ WellEscaped(xOut[1]))

\* A text that already looks like an entity: it must not come back as "<".
C10_Witness ==
    xOut # None /\ xText = <<"&", "l", "t", ";">>
        /\ xOut[1] = <<"&", "a", "m", "p", ";", "l", "t", ";">>

====
